---------------------------- MODULE Spec2Model ----------------------------
(***************************************************************************)
(* Model of the interactive measurement tool (src/measurement-tool.js):    *)
(* the MeasurementTool object, the Leaflet map it draws on and the two     *)
(* buttons of its control, driven by toggle / clear calls, button clicks   *)
(* and map clicks.                                                         *)
(*                                                                         *)
(* Numbers.  JavaScript numbers are IEEE doubles.  Coordinates are whole   *)
(* (even) degrees; the values of sin, cos, sqrt and products are fixed     *)
(* point numbers with Scale units per 1.0, rounded to nearest the way a    *)
(* double operation rounds its result; NaN is a value of its own.          *)
(* Distances are whole kilometres, areas whole square kilometres.          *)
(***************************************************************************)
EXTENDS Integers, Sequences, FiniteSets, Bags, TLC

\* ------------------------------------------------------------- bounds

\* Largest number of points placed before the model stops clicking.
MaxPoints == 3

\* ------------------------------------------------------------- numbers

\* Fixed-point unit: the value 1.0 of a double.
Scale == 10000

\* Math.PI as the fraction PiNum / PiDen.
PiNum == 355
PiDen == 113

\* Earth's radius in km.
R == 6371

\* A number that is not NaN, and NaN.
Num(v) == [nan |-> FALSE, val |-> v]
NaN == [nan |-> TRUE, val |-> 0]

Abs(x) == IF x < 0 THEN -x ELSE x

\* x + y of two numbers: NaN when either is NaN.
Plus(x, y) == IF x.nan \/ y.nan THEN NaN ELSE Num(x.val + y.val)

\* x > 0: false for NaN.
GreaterThanZero(x) == ~x.nan /\ x.val > 0

\* The product of two fixed-point values, rounded to nearest.
Mul(x, y) ==
    LET p == x * y
    IN  IF p >= 0 THEN (2 * p + Scale) \div (2 * Scale)
                  ELSE -((2 * (-p) + Scale) \div (2 * Scale))

\* sin of 0..90 degrees, rounded to nearest.
SinTable ==
    << 175, 349, 523, 698, 872, 1045, 1219, 1392, 1564, 1736,
       1908, 2079, 2250, 2419, 2588, 2756, 2924, 3090, 3256, 3420,
       3584, 3746, 3907, 4067, 4226, 4384, 4540, 4695, 4848, 5000,
       5150, 5299, 5446, 5592, 5736, 5878, 6018, 6157, 6293, 6428,
       6561, 6691, 6820, 6947, 7071, 7193, 7314, 7431, 7547, 7660,
       7771, 7880, 7986, 8090, 8192, 8290, 8387, 8480, 8572, 8660,
       8746, 8829, 8910, 8988, 9063, 9135, 9205, 9272, 9336, 9397,
       9455, 9511, 9563, 9613, 9659, 9703, 9744, 9781, 9816, 9848,
       9877, 9903, 9925, 9945, 9962, 9976, 9986, 9994, 9998, 10000 >>

\* Math.sin of an angle of deg whole degrees.
Sin(deg) ==
    LET d == deg % 360
        q == IF d <= 90 THEN d
             ELSE IF d <= 180 THEN 180 - d
             ELSE IF d <= 270 THEN d - 180
             ELSE 360 - d
        v == IF q = 0 THEN 0 ELSE SinTable[q]
    IN  IF d <= 180 THEN v ELSE -v

\* Math.cos of an angle of deg whole degrees.
Cos(deg) == Sin(deg + 90)

\* The largest r in lo..hi with r * r <= n.
RECURSIVE SqrtSearch(_, _, _)
SqrtSearch(n, lo, hi) ==
    IF lo >= hi THEN lo
    ELSE LET mid == (lo + hi + 1) \div 2
         IN  IF mid * mid <= n THEN SqrtSearch(n, mid, hi)
                               ELSE SqrtSearch(n, lo, mid - 1)

\* Math.sqrt of a fixed-point value: NaN for a negative argument.
Sqrt(x) ==
    IF x < 0 THEN NaN
    ELSE LET n == x * Scale
             r == SqrtSearch(n, 0, Scale + Scale)
         IN  Num(IF n - r * r <= (r + 1) * (r + 1) - n THEN r ELSE r + 1)

\* The sine of the angle between the direction (x, y) and the direction of
\* t degrees, times the length of (x, y): positive while t is below it.
AtanSide(y, x, t) == y * Cos(t) - x * Sin(t)

\* The largest t in lo..hi (whole degrees) that is not above the direction
\* of (x, y); lo is never above it.
RECURSIVE AtanSearch(_, _, _, _)
AtanSearch(y, x, lo, hi) ==
    IF lo >= hi THEN lo
    ELSE LET mid == (lo + hi + 1) \div 2
         IN  IF AtanSide(y, x, mid) >= 0 THEN AtanSearch(y, x, mid, hi)
                                        ELSE AtanSearch(y, x, lo, mid - 1)

\* The whole degree nearest to the direction of (x, y), for y, x >= 0.
AtanNearest(y, x) ==
    LET t == AtanSearch(y, x, 0, 90)
    IN  IF t < 90 /\ Abs(AtanSide(y, x, t + 1)) < Abs(AtanSide(y, x, t))
        THEN t + 1 ELSE t

\* Math.atan2(y, x) for y, x >= 0, in whole degrees: NaN when either is NaN.
Atan2(y, x) ==
    IF y.nan \/ x.nan THEN NaN ELSE Num(AtanNearest(y.val, x.val))

\* ------------------------------------------------------------- geometry

\* The places a click can land on (latitude, longitude in degrees).  The
\* first two are antipodal.
LatLngs ==
    { [lat |-> 8, lng |-> 0], [lat |-> -8, lng |-> 180], [lat |-> 4, lng |-> 60] }

\* getDistance with a slip: the sine of the latitude term is not squared.
getDistanceUnsquared(latlng1, latlng2) ==
    LET dLat == latlng2.lat - latlng1.lat
        dLng == latlng2.lng - latlng1.lng
        a == Sin(dLat \div 2)
             + Mul(Mul(Mul(Cos(latlng1.lat), Cos(latlng2.lat)), Sin(dLng \div 2)),
                   Sin(dLng \div 2))
        halfC == Atan2(Sqrt(a), Sqrt(Scale - a))
    IN  IF halfC.nan THEN NaN
        ELSE Num((R * (2 * halfC.val) * PiNum) \div (PiDen * 180))

\* MeasurementTool.getDistance: the haversine formula.
getDistance(latlng1, latlng2) ==
    LET dLat == latlng2.lat - latlng1.lat
        dLng == latlng2.lng - latlng1.lng
        a == Mul(Sin(dLat \div 2), Sin(dLat \div 2))
             + Mul(Mul(Mul(Cos(latlng1.lat), Cos(latlng2.lat)), Sin(dLng \div 2)),
                   Sin(dLng \div 2))
        halfC == Atan2(Sqrt(a), Sqrt(Scale - a))
    IN  IF halfC.nan THEN NaN
        ELSE Num((R * (2 * halfC.val) * PiNum) \div (PiDen * 180))

\* The loop of getArea from index i (1-based) on, acc the sum so far.
RECURSIVE ShoelaceLoop(_, _, _)
ShoelaceLoop(points, i, acc) ==
    IF i > Len(points) THEN acc
    ELSE LET j == (i % Len(points)) + 1
         IN  ShoelaceLoop(points, i + 1,
                 acc + points[i].lng * points[j].lat - points[j].lng * points[i].lat)

\* Square kilometres per square degree: (Math.PI / 180) * R * R.
KmSqPerDegSq == ((((R * PiNum) \div PiDen) * R) \div 180)

\* getArea with a slip: the loop stops before the edge from the last point
\* back to the first.
getAreaOpen(points) ==
    IF Len(points) < 3 THEN 0
    ELSE LET n == Len(points)
             closing == points[n].lng * points[1].lat - points[1].lng * points[n].lat
         IN  (Abs(ShoelaceLoop(points, 1, 0) - closing) \div 2) * KmSqPerDegSq

\* getArea with a slip: Math.abs is left out, the sign depends on the
\* direction the points go round.
getAreaSigned(points) ==
    IF Len(points) < 3 THEN 0
    ELSE (ShoelaceLoop(points, 1, 0) \div 2) * KmSqPerDegSq

\* MeasurementTool.getArea: the shoelace formula.
getArea(points) ==
    IF Len(points) < 3 THEN 0
    ELSE (Abs(ShoelaceLoop(points, 1, 0)) \div 2) * KmSqPerDegSq

\* ------------------------------------------------------------- state

VARIABLES
    isActive,         \* this.isActive
    points,           \* this.points: the placed points, in placement order
    polyline,         \* this.polyline: null, or the line and its vertices
    markers,          \* this.markers: the position of each marker created
    totalDistance,    \* this.totalDistance
    area,             \* this.area
    infoDisplay,      \* this.infoDisplay: whether the info control exists
    infoDiv,          \* this.infoDiv: the panel's element and its innerHTML
    toggleBtnActive,  \* toggleBtn.classList has 'active'
    clearBtnDisplay,  \* clearBtn.style.display
    dragging,         \* map.dragging is enabled
    mapMarkers,       \* the circle markers attached to the map (a bag of positions)
    mapPolylines,     \* the number of polylines attached to the map
    mapControls,      \* the number of info panels mounted on the map
    error,            \* an exception has escaped from a handler
    events,           \* the last events handled, oldest first (history only)
    app,              \* the TomboloMapApp object, its page and its pending awaits
    appEvents,        \* the last events of the page, oldest first (history only)
    auth,             \* the AuthManager object
    authLog,          \* the last notification and the callbacks unsubscribed (history only)
    fetch             \* a call of _fetchAllRecords: its locals, its position, its requests

\* The program's state: everything but the history.
progVars ==
    << isActive, points, polyline, markers, totalDistance, area, infoDisplay,
       infoDiv, toggleBtnActive, clearBtnDisplay, dragging, mapMarkers,
       mapPolylines, mapControls, error >>

\* The measurement tool with its history, and the map page with its history.
toolVars == << progVars, events >>
appVars == << app, appEvents >>

authVars == << auth, authLog >>

vars == << toolVars, appVars, authVars, fetch >>

\* this.polyline = null, and a polyline with the given vertices.
NoPolyline == [present |-> FALSE, latlngs |-> << >>]
Polyline(latlngs) == [present |-> TRUE, latlngs |-> latlngs]

\* No element yet, and an element with its innerHTML: the point count, the
\* distance entry (km, m) when shown, the area entry (km2, ha) when shown.
NoDiv == [exists |-> FALSE, points |-> 0, distance |-> << >>, area |-> << >>]

\* The empty element the control's onAdd creates.
NewDiv == [exists |-> TRUE, points |-> 0, distance |-> << >>, area |-> << >>]

\* The program's state as one record, so that a handler is a function of it.
Cur ==
    [ isActive |-> isActive, points |-> points, polyline |-> polyline,
      markers |-> markers, totalDistance |-> totalDistance, area |-> area,
      infoDisplay |-> infoDisplay, infoDiv |-> infoDiv,
      toggleBtnActive |-> toggleBtnActive, clearBtnDisplay |-> clearBtnDisplay,
      dragging |-> dragging, mapMarkers |-> mapMarkers,
      mapPolylines |-> mapPolylines, mapControls |-> mapControls,
      error |-> error ]

\* The next state is the record s.
Becomes(s) ==
    /\ isActive' = s.isActive
    /\ points' = s.points
    /\ polyline' = s.polyline
    /\ markers' = s.markers
    /\ totalDistance' = s.totalDistance
    /\ area' = s.area
    /\ infoDisplay' = s.infoDisplay
    /\ infoDiv' = s.infoDiv
    /\ toggleBtnActive' = s.toggleBtnActive
    /\ clearBtnDisplay' = s.clearBtnDisplay
    /\ dragging' = s.dragging
    /\ mapMarkers' = s.mapMarkers
    /\ mapPolylines' = s.mapPolylines
    /\ mapControls' = s.mapControls
    /\ error' = s.error

\* The state after the constructor: the fields, the control added to the map
\* with its clear button hidden, dragging enabled as Leaflet creates a map.
constructor ==
    [ isActive |-> FALSE, points |-> << >>, polyline |-> NoPolyline,
      markers |-> << >>, totalDistance |-> Num(0), area |-> 0,
      infoDisplay |-> FALSE, infoDiv |-> NoDiv,
      toggleBtnActive |-> FALSE, clearBtnDisplay |-> "none",
      dragging |-> TRUE, mapMarkers |-> EmptyBag,
      mapPolylines |-> 0, mapControls |-> 0, error |-> FALSE ]

\* ------------------------------------------------------------- handlers

\* toggle with a slip: leaving measurement mode also drops the points.
toggleOffDropsPoints(s) ==
    LET s1 == [s EXCEPT !.isActive = ~s.isActive]
    IN  IF ~s1.isActive THEN [s1 EXCEPT !.dragging = TRUE, !.points = << >>]
                        ELSE [s1 EXCEPT !.dragging = FALSE]

\* MeasurementTool.toggle
toggle(s) ==
    LET s1 == [s EXCEPT !.isActive = ~s.isActive]
    IN  IF ~s1.isActive THEN [s1 EXCEPT !.dragging = TRUE]
                        ELSE [s1 EXCEPT !.dragging = FALSE]

\* The distance loop with a slip: the first pair of points is skipped.
RECURSIVE DistanceLoopSkipFirst(_, _, _)
DistanceLoopSkipFirst(pts, i, acc) ==
    IF i > Len(pts) - 1 THEN acc
    ELSE DistanceLoopSkipFirst(pts, i + 1,
             IF i = 1 THEN acc ELSE Plus(acc, getDistance(pts[i], pts[i + 1])))

\* The distance loop of updateMeasurements from index i (1-based) on.
RECURSIVE DistanceLoop(_, _, _)
DistanceLoop(pts, i, acc) ==
    IF i > Len(pts) - 1 THEN acc
    ELSE DistanceLoop(pts, i + 1, Plus(acc, getDistance(pts[i], pts[i + 1])))

\* updateMeasurements with a slip: the area is not recomputed.
updateMeasurementsStaleArea(s) ==
    IF Len(s.points) < 2
    THEN [s EXCEPT !.totalDistance = Num(0), !.area = 0]
    ELSE [s EXCEPT !.totalDistance = DistanceLoop(s.points, 1, Num(0))]

\* MeasurementTool.updateMeasurements
updateMeasurements(s) ==
    IF Len(s.points) < 2
    THEN [s EXCEPT !.totalDistance = Num(0), !.area = 0]
    ELSE [s EXCEPT !.totalDistance = DistanceLoop(s.points, 1, Num(0)),
                   !.area = IF Len(s.points) >= 3 THEN getArea(s.points) ELSE 0]

\* The innerHTML showInfo builds from the fields.
InfoHtml(s) ==
    [ exists |-> TRUE,
      points |-> Len(s.points),
      distance |-> IF GreaterThanZero(s.totalDistance)
                   THEN << s.totalDistance.val, s.totalDistance.val * 1000 >>
                   ELSE << >>,
      area |-> IF s.area > 0
               THEN << s.area, [hundreds |-> s.area] >>
               ELSE << >> ]

\* The last statement of showInfo: the element's innerHTML is assigned, a
\* TypeError when this.infoDiv is undefined.
WriteInfoHtml(s) ==
    IF s.infoDiv.exists THEN [s EXCEPT !.infoDiv = InfoHtml(s)]
                        ELSE [s EXCEPT !.error = TRUE]

\* showInfo with a slip: a new info control is mounted on every call.
showInfoAlwaysCreate(s) ==
    WriteInfoHtml([s EXCEPT !.infoDisplay = TRUE,
                            !.infoDiv = NewDiv,
                            !.mapControls = s.mapControls + 1])

\* showInfo with a slip: onAdd does not keep the element it creates.
showInfoNoElement(s) ==
    WriteInfoHtml(IF ~s.infoDisplay
                  THEN [s EXCEPT !.infoDisplay = TRUE,
                                 !.mapControls = s.mapControls + 1]
                  ELSE s)

\* MeasurementTool.showInfo
showInfo(s) ==
    WriteInfoHtml(IF ~s.infoDisplay
                  THEN [s EXCEPT !.infoDisplay = TRUE,
                                 !.infoDiv = NewDiv,
                                 !.mapControls = s.mapControls + 1]
                  ELSE s)

\* addPoint with a slip: a point already placed is not placed again.
addPointDedup(s, latlng) ==
    IF \E i \in 1..Len(s.points) : s.points[i] = latlng THEN s
    ELSE LET s1 == [s EXCEPT !.points = Append(s.points, latlng),
                             !.markers = Append(s.markers, latlng),
                             !.mapMarkers = s.mapMarkers (+) SetToBag({latlng})]
             s2 == IF Len(s1.points) > 1
                   THEN IF s1.polyline.present
                        THEN [s1 EXCEPT !.polyline = Polyline(s1.points)]
                        ELSE [s1 EXCEPT !.polyline = Polyline(s1.points),
                                        !.mapPolylines = s1.mapPolylines + 1]
                   ELSE s1
         IN  showInfo(updateMeasurements(s2))

\* addPoint with a slip: every point after the first adds a new polyline.
addPointNewLine(s, latlng) ==
    LET s1 == [s EXCEPT !.points = Append(s.points, latlng),
                        !.markers = Append(s.markers, latlng),
                        !.mapMarkers = s.mapMarkers (+) SetToBag({latlng})]
        s2 == IF Len(s1.points) > 1
              THEN [s1 EXCEPT !.polyline = Polyline(s1.points),
                              !.mapPolylines = s1.mapPolylines + 1]
              ELSE s1
    IN  showInfo(updateMeasurements(s2))

\* addPoint with a slip: an existing polyline is not given the new points.
addPointStaleLine(s, latlng) ==
    LET s1 == [s EXCEPT !.points = Append(s.points, latlng),
                        !.markers = Append(s.markers, latlng),
                        !.mapMarkers = s.mapMarkers (+) SetToBag({latlng})]
        s2 == IF Len(s1.points) > 1 /\ ~s1.polyline.present
              THEN [s1 EXCEPT !.polyline = Polyline(s1.points),
                              !.mapPolylines = s1.mapPolylines + 1]
              ELSE s1
    IN  showInfo(updateMeasurements(s2))

\* addPoint with a slip: the panel is written before the totals are updated.
addPointShowFirst(s, latlng) ==
    LET s1 == [s EXCEPT !.points = Append(s.points, latlng),
                        !.markers = Append(s.markers, latlng),
                        !.mapMarkers = s.mapMarkers (+) SetToBag({latlng})]
        s2 == IF Len(s1.points) > 1
              THEN IF s1.polyline.present
                   THEN [s1 EXCEPT !.polyline = Polyline(s1.points)]
                   ELSE [s1 EXCEPT !.polyline = Polyline(s1.points),
                                   !.mapPolylines = s1.mapPolylines + 1]
              ELSE s1
    IN  updateMeasurements(showInfo(s2))

\* MeasurementTool.addPoint
addPoint(s, latlng) ==
    LET s1 == [s EXCEPT !.points = Append(s.points, latlng),
                        !.markers = Append(s.markers, latlng),
                        !.mapMarkers = s.mapMarkers (+) SetToBag({latlng})]
        s2 == IF Len(s1.points) > 1
              THEN IF s1.polyline.present
                   THEN [s1 EXCEPT !.polyline = Polyline(s1.points)]
                   ELSE [s1 EXCEPT !.polyline = Polyline(s1.points),
                                   !.mapPolylines = s1.mapPolylines + 1]
              ELSE s1
    IN  showInfo(updateMeasurements(s2))

\* map.removeLayer of every marker of a list, one after the other.
RECURSIVE RemoveMarkers(_, _)
RemoveMarkers(layers, ms) ==
    IF ms = << >> THEN layers
    ELSE RemoveMarkers(layers (-) SetToBag({Head(ms)}), Tail(ms))

\* clear's first part with a slip: this.area is not reset.
clearSessionKeepArea(s) ==
    [s EXCEPT !.points = << >>,
              !.totalDistance = Num(0),
              !.mapMarkers = RemoveMarkers(s.mapMarkers, s.markers),
              !.markers = << >>]

\* clear, first part: the session's fields are reset and every marker is
\* removed from the map.
clearSession(s) ==
    [s EXCEPT !.points = << >>,
              !.totalDistance = Num(0),
              !.area = 0,
              !.mapMarkers = RemoveMarkers(s.mapMarkers, s.markers),
              !.markers = << >>]

\* clear, second part: the polyline, if there is one, is removed.
clearPolyline(s) ==
    IF s.polyline.present
    THEN [s EXCEPT !.polyline = NoPolyline, !.mapPolylines = s.mapPolylines - 1]
    ELSE s

\* clear, third part: the info control, if there is one, is removed.
clearInfo(s) ==
    IF s.infoDisplay
    THEN [s EXCEPT !.infoDisplay = FALSE, !.mapControls = s.mapControls - 1]
    ELSE s

\* clear, last part: inactive, the buttons reset, dragging enabled.
clearMode(s) ==
    [s EXCEPT !.isActive = FALSE,
              !.toggleBtnActive = FALSE,
              !.clearBtnDisplay = "none",
              !.dragging = TRUE]

\* clear with a slip: dragging is not enabled again.
clearKeepDragging(s) ==
    [clearMode(clearInfo(clearPolyline(clearSession(s)))) EXCEPT !.dragging = s.dragging]

\* clear with a slip: the mode is left as it was.
clearKeepActive(s) ==
    [clearMode(clearInfo(clearPolyline(clearSession(s)))) EXCEPT !.isActive = s.isActive]

\* clear with a slip: the mode is flipped instead of forced to inactive.
clearTogglesActive(s) ==
    [clearMode(clearInfo(clearPolyline(clearSession(s)))) EXCEPT !.isActive = ~s.isActive]

\* clear with a slip: the polyline leaves the map but this.polyline is kept.
clearKeepPolyline(s) ==
    LET s1 == clearSession(s)
        s2 == IF s1.polyline.present
              THEN [s1 EXCEPT !.mapPolylines = s1.mapPolylines - 1]
              ELSE s1
    IN  clearMode(clearInfo(s2))

\* clear with a slip: the marker list is emptied, the markers stay on the map.
clearLeaveMarkers(s) ==
    [clearMode(clearInfo(clearPolyline(clearSession(s)))) EXCEPT !.mapMarkers = s.mapMarkers]

\* MeasurementTool.clear
clear(s) == clearMode(clearInfo(clearPolyline(clearSession(s))))

\* The click listener with a slip: the mode is not looked at.
mapClickAlways(s, latlng) == addPoint(s, latlng)

\* The map's click listener set up by setupMapEvents.
mapClick(s, latlng) == IF s.isActive THEN addPoint(s, latlng) ELSE s

\* The toggle button's listener with a slip: the clear button is shown
\* whatever the mode.
toggleBtnClickAlwaysShow(s) ==
    LET s1 == toggle(s)
        s2 == [s1 EXCEPT !.toggleBtnActive = ~s1.toggleBtnActive]
    IN  [s2 EXCEPT !.clearBtnDisplay = "block"]

\* The toggle button's listener with a slip: the 'active' class is not
\* toggled.
toggleBtnClickKeepClass(s) ==
    LET s1 == toggle(s)
    IN  [s1 EXCEPT !.clearBtnDisplay = IF s1.isActive THEN "block" ELSE "none"]

\* The toggle button's click listener.
toggleBtnClick(s) ==
    LET s1 == toggle(s)
        s2 == [s1 EXCEPT !.toggleBtnActive = ~s1.toggleBtnActive]
    IN  [s2 EXCEPT !.clearBtnDisplay = IF s2.isActive THEN "block" ELSE "none"]

\* The clear button's click listener.
clearBtnClick(s) ==
    LET s1 == clear(s)
    IN  [s1 EXCEPT !.toggleBtnActive = FALSE, !.clearBtnDisplay = "none"]

\* ------------------------------------------------------------- map page

\* The most awaits that may be pending when the user acts once more.
MaxPending == 2

\* The rows of the backend table 'tombolos'.
Table ==
    << [id |-> "t1", prefecture_en |-> "Attica"],
       [id |-> "t2", prefecture_en |-> "Crete"],
       [id |-> "t3", prefecture_en |-> "Crete"] >>

\* The values of the filter selects; "" is 'all'.  One select stands for
\* the seven of the page.
FilterValues == {"", "Attica", "Crete"}

\* The rows the query of loadTomboloData gives for the filters.
Query(filters) ==
    SelectSeq(Table, LAMBDA row : filters = "" \/ row.prefecture_en = filters)

\* A pending await: the function that waits, and what it holds on to.
Task(kind, arg) == [kind |-> kind, arg |-> arg]

\* The page with one more await pending, and with one settled.
Await(a, kind, arg) == [a EXCEPT !.pending = @ (+) SetToBag({Task(kind, arg)})]
Settle(a, task) == [a EXCEPT !.pending = @ (-) SetToBag({task})]

\* TomboloMapApp's constructor: the fields, the selects on 'all', no badge,
\* no error banner, the details cache empty (a set of entries, one for each
\* key), the modal closed, and init() waiting for its first request.
TomboloMapApp ==
    [ currentData |-> << >>,
      isLoading |-> FALSE,
      isUpdatingFilters |-> FALSE,
      filterOptions |-> {},
      filterValue |-> "",
      activeFilters |-> "",
      errorBanner |-> FALSE,
      tomboloDetailsCache |-> {},
      modal |-> << >>,
      pending |-> SetToBag({Task("init", "loadFilterOptions")}) ]

\* loadTomboloData with a slip: no isLoading guard.
loadTomboloDataNoGuard(a, filters) ==
    Await([a EXCEPT !.isLoading = TRUE], "loadTomboloData", filters)

\* loadTomboloData up to its await: nothing while a load runs, else the
\* flag is set and the query sent.
loadTomboloData(a, filters) ==
    IF a.isLoading THEN a
    ELSE Await([a EXCEPT !.isLoading = TRUE], "loadTomboloData", filters)

\* loadTomboloData after its await with a slip: the flag is reset on
\* success only.
loadTomboloDataResumedNoFinally(a, filters, ok) ==
    IF ok THEN [a EXCEPT !.currentData = Query(filters), !.isLoading = FALSE]
    ELSE [a EXCEPT !.errorBanner = TRUE]

\* loadTomboloData after its await: the data on success, the banner on
\* failure, and the flag reset in both cases.
loadTomboloDataResumed(a, filters, ok) ==
    LET a1 == IF ok THEN [a EXCEPT !.currentData = Query(filters)]
              ELSE [a EXCEPT !.errorBanner = TRUE]
    IN  [a1 EXCEPT !.isLoading = FALSE]

\* applyFilters up to its await: reads the selects, shows the badges and
\* calls loadTomboloData.
applyFilters(a) ==
    LET filters == a.filterValue
    IN  loadTomboloData([a EXCEPT !.activeFilters = filters], filters)

\* populateFilterDropdowns: every select is set to the value handed in.
populateFilterDropdowns(a, selectedFilters) ==
    [a EXCEPT !.filterValue = selectedFilters]

\* loadFilterOptions after its queries: the options are stored and the
\* selects refilled on success, the banner is shown on failure; the error is not passed on.
loadFilterOptionsResumed(a, selectedFilters, ok) ==
    IF ok THEN populateFilterDropdowns(
                   [a EXCEPT !.filterOptions = FilterValues \ {""}], selectedFilters)
    ELSE [a EXCEPT !.errorBanner = TRUE]

\* handleFilterChange with a slip: no isUpdatingFilters guard.
handleFilterChangeNoGuard(a) ==
    Await([a EXCEPT !.isUpdatingFilters = TRUE], "handleFilterChange", a.filterValue)

\* handleFilterChange up to its await: nothing while another runs, else the
\* flag is set and loadFilterOptions called with the values selected now.
handleFilterChange(a) ==
    IF a.isUpdatingFilters THEN a
    ELSE Await([a EXCEPT !.isUpdatingFilters = TRUE], "handleFilterChange",
               a.filterValue)

\* handleFilterChange after its await: applyFilters is called and not
\* waited for, the flag is reset.
handleFilterChangeResumed(a, selectedFilters, ok) ==
    [applyFilters(loadFilterOptionsResumed(a, selectedFilters, ok))
        EXCEPT !.isUpdatingFilters = FALSE]

\* clearFilters up to its await: the selects go to 'all', the badges are
\* hidden, loadFilterOptions({}) is called.
clearFilters(a) ==
    Await([a EXCEPT !.filterValue = "", !.activeFilters = ""], "clearFilters", "")

\* clearFilters after its await.
clearFiltersResumed(a, ok) == applyFilters(loadFilterOptionsResumed(a, "", ok))

\* clearIndividualFilter: the select goes to 'all', applyFilters is called.
clearIndividualFilter(a) == applyFilters([a EXCEPT !.filterValue = ""])

\* init after checkDatabaseConnection and loadFilterOptions(): loadStats is
\* awaited next.
initResumed(a, ok) ==
    Await(loadFilterOptionsResumed(a, "", ok), "init", "loadStats")

\* init after loadStats: loadTomboloData() without filters.
initLoad(a) == loadTomboloData(a, "")

\* The ids of the features on the map, and the versions of a row the
\* backend may answer with (the row may change between two requests).
TomboloIds == { Table[i].id : i \in 1..Len(Table) }
Versions == {1, 2}

\* tomboloDetailsCache.has, .get and .set.
Has(cache, key) == \E entry \in cache : entry.key = key
Get(cache, key) == (CHOOSE entry \in cache : entry.key = key).value
Set(cache, key, value) ==
    { entry \in cache : entry.key # key } \cup {[key |-> key, value |-> value]}

\* displayTomboloModal: the modal shows the record.
displayTomboloModal(a, tombolo) == [a EXCEPT !.modal = << tombolo >>]

\* showTomboloDetails with a slip: the cache is not looked at.
showTomboloDetailsNoCache(a, tomboloId) ==
    Await(a, "showTomboloDetails", tomboloId)

\* showTomboloDetails up to its await: a cached record is displayed, else
\* the row is requested.
showTomboloDetails(a, tomboloId) ==
    IF Has(a.tomboloDetailsCache, tomboloId)
    THEN displayTomboloModal(a, Get(a.tomboloDetailsCache, tomboloId))
    ELSE Await(a, "showTomboloDetails", tomboloId)

\* showTomboloDetails after its await: the row, with its reference added,
\* is cached and displayed; after an error the banner is shown.
showTomboloDetailsResumed(a, tomboloId, ok, version) ==
    IF ok
    THEN LET tombolo == [id |-> tomboloId, version |-> version,
                         reference |-> "https://doi.org/10.3390/jmse12122112"]
         IN  displayTomboloModal(
                 [a EXCEPT !.tomboloDetailsCache = Set(@, tomboloId, tombolo)],
                 tombolo)
    ELSE [a EXCEPT !.errorBanner = TRUE]

\* closeModal.
closeModal(a) == [a EXCEPT !.modal = << >>]

\* ------------------------------------------------------------- auth

\* The functions that may be registered as callbacks, the sessions an
\* update may bring ("null": signed out), and what a callback does when it
\* is called: return, throw, or call its own unsubscribe function.
Callbacks == {"cb1", "cb2", "cb3"}
Sessions == {"null", "session1"}
Behaviours == {"return", "throw", "unsubscribe"}

\* AuthManager's constructor.
AuthManager == [currentSession |-> "null", callbacks |-> << >>]

\* The history at the start: no notification yet, nothing unsubscribed.
NoNotification ==
    [notified |-> FALSE, session |-> "null", registered |-> << >>,
     unsubscribed |-> {}, invoked |-> << >>, gone |-> {}]

\* callbacks.indexOf(callback): the first index (1-based) or 0.
IndexOf(callbacks, callback) ==
    IF \E i \in 1..Len(callbacks) : callbacks[i] = callback
    THEN CHOOSE i \in 1..Len(callbacks) :
             /\ callbacks[i] = callback
             /\ \A j \in 1..(i - 1) : callbacks[j] # callback
    ELSE 0

\* The unsubscribe function onAuthChange returns: the first entry of the
\* callback is spliced out, if there is one.
unsubscribe(callbacks, callback) ==
    LET index == IndexOf(callbacks, callback)
    IN  IF index > 0
        THEN SubSeq(callbacks, 1, index - 1) \o SubSeq(callbacks, index + 1, Len(callbacks))
        ELSE callbacks

\* onAuthChange: the callback is pushed.
onAuthChange(a, callback) == [a EXCEPT !.callbacks = Append(@, callback)]

\* callbacks.forEach of _notifyCallbacks from index k (1-based) on: the
\* indices run up to the length the array had at the start, over the array
\* as it is when the index is reached; an index past its end is skipped; an
\* exception of a callback is caught.  Gives the array and the callbacks
\* called, in order.
RECURSIVE forEach(_, _, _, _, _)
forEach(callbacks, k, len, behave, invoked) ==
    IF k > len THEN [callbacks |-> callbacks, invoked |-> invoked]
    ELSE IF k > Len(callbacks) THEN forEach(callbacks, k + 1, len, behave, invoked)
    ELSE LET callback == callbacks[k]
         IN  forEach(IF behave[callback] = "unsubscribe"
                     THEN unsubscribe(callbacks, callback)
                     ELSE callbacks,
                     k + 1, len, behave, Append(invoked, callback))

\* _notifyCallbacks.
notifyCallbacks(callbacks, behave) ==
    forEach(callbacks, 1, Len(callbacks), behave, << >>)

\* _updateSession: the session is stored and the callbacks are notified.
updateSession(a, session, behave) ==
    [a EXCEPT !.currentSession = session,
              !.callbacks = notifyCallbacks(a.callbacks, behave).callbacks]

\* ------------------------------------------------------------- paging

\* The most full batches a result set of the model holds.
MaxBatches == 4

\* const batchSize of _fetchAllRecords.
batchSize == 1000

\* The sizes of the result sets tried: around every multiple of the batch
\* size.  The rows of a result set of n rows are 0 .. n - 1, in query order.
RowCounts ==
    { b * batchSize + d : b \in 0..MaxBatches,
                          d \in {0, 1, batchSize \div 2, batchSize - 1} }

\* What query.range(from, to) gives for a result set of n rows: the rows
\* from..to that exist.
Range(n, from, to) ==
    LET last == IF to < n - 1 THEN to ELSE n - 1
    IN  IF from > last THEN << >> ELSE [i \in 1..(last - from + 1) |-> from + i - 1]

\* No call of _fetchAllRecords is running.
NoFetch == [pc |-> "idle", rows |-> 0, offset |-> 0, allRecords |-> << >>, ranges |-> << >>]

\* _fetchAllRecords up to its first await, for a query with n rows: the
\* first range is requested.
fetchAllRecords(n) ==
    [pc |-> "await", rows |-> n, offset |-> 0, allRecords |-> << >>,
     ranges |-> << [from |-> 0, to |-> batchSize - 1] >>]

\* One turn of the loop with a slip: the offset advances by one less than
\* the batch size.
fetchAllRecordsResumedOverlap(f, ok) ==
    LET data == Range(f.rows, f.offset, f.offset + batchSize - 1)
        next == f.offset + batchSize - 1
    IN  IF ~ok THEN [f EXCEPT !.pc = "thrown"]
        ELSE IF Len(data) = 0 THEN [f EXCEPT !.pc = "returned"]
        ELSE IF Len(data) < batchSize
             THEN [f EXCEPT !.pc = "returned", !.allRecords = @ \o data]
        ELSE [f EXCEPT !.allRecords = @ \o data,
                       !.offset = next,
                       !.ranges = Append(@, [from |-> next, to |-> next + batchSize - 1])]

\* One turn of the loop of _fetchAllRecords after its await: an error is
\* thrown, no data ends the loop, data is appended, a short batch ends the
\* loop, a full batch moves the offset on and requests the next range.
fetchAllRecordsResumed(f, ok) ==
    LET data == Range(f.rows, f.offset, f.offset + batchSize - 1)
        next == f.offset + batchSize
    IN  IF ~ok THEN [f EXCEPT !.pc = "thrown"]
        ELSE IF Len(data) = 0 THEN [f EXCEPT !.pc = "returned"]
        ELSE IF Len(data) < batchSize
             THEN [f EXCEPT !.pc = "returned", !.allRecords = @ \o data]
        ELSE [f EXCEPT !.allRecords = @ \o data,
                       !.offset = next,
                       !.ranges = Append(@, [from |-> next, to |-> next + batchSize - 1])]

\* ------------------------------------------------------------- events

\* An event as the history keeps it: the operation, and the mode and the
\* point count it found.
Event(op) == [op |-> op, active |-> isActive, n |-> Len(points)]

\* The history after one more event: the last three, oldest first.
Record(op) ==
    events' = IF Len(events) < 3 THEN Append(events, Event(op))
              ELSE Append(Tail(events), Event(op))

Init ==
    /\ isActive = constructor.isActive
    /\ points = constructor.points
    /\ polyline = constructor.polyline
    /\ markers = constructor.markers
    /\ totalDistance = constructor.totalDistance
    /\ area = constructor.area
    /\ infoDisplay = constructor.infoDisplay
    /\ infoDiv = constructor.infoDiv
    /\ toggleBtnActive = constructor.toggleBtnActive
    /\ clearBtnDisplay = constructor.clearBtnDisplay
    /\ dragging = constructor.dragging
    /\ mapMarkers = constructor.mapMarkers
    /\ mapPolylines = constructor.mapPolylines
    /\ mapControls = constructor.mapControls
    /\ error = constructor.error
    /\ events = << >>
    /\ app = TomboloMapApp
    /\ appEvents = << >>
    /\ auth = AuthManager
    /\ authLog = NoNotification
    /\ fetch = NoFetch

\* A call of toggle().
Toggle == Becomes(toggle(Cur)) /\ Record("toggle") /\ UNCHANGED << appVars, authVars, fetch >>

\* A call of clear().
Clear == Becomes(clear(Cur)) /\ Record("clear") /\ UNCHANGED << appVars, authVars, fetch >>

\* A click on the map at latlng.
MapClick(latlng) ==
    /\ isActive => Len(points) < MaxPoints
    /\ Becomes(mapClick(Cur, latlng))
    /\ Record("click")
    /\ UNCHANGED << appVars, authVars, fetch >>

\* A click on the toggle button.
ToggleBtnClick ==
    Becomes(toggleBtnClick(Cur)) /\ Record("toggleBtn") /\ UNCHANGED << appVars, authVars, fetch >>

\* A click on the clear button.
ClearBtnClick ==
    Becomes(clearBtnClick(Cur)) /\ Record("clearBtn") /\ UNCHANGED << appVars, authVars, fetch >>

Next ==
    \/ Toggle
    \/ Clear
    \/ \E latlng \in LatLngs : MapClick(latlng)
    \/ ToggleBtnClick
    \/ ClearBtnClick

Spec == Init /\ [][Next]_vars

\* The tool as the page drives it: through its two buttons and the map only.
NextUI ==
    \/ \E latlng \in LatLngs : MapClick(latlng)
    \/ ToggleBtnClick
    \/ ClearBtnClick

SpecUI == Init /\ [][NextUI]_vars

\* ------------------------------------------------------------- page events

\* An event of the page as the history keeps it: the operation, its
\* argument, its outcome where it has one, and the page it found.
AppEvent(op, arg, ok) == [op |-> op, arg |-> arg, ok |-> ok, found |-> app]

\* The history after one more event of the page: the last two.
AppRecord(op, arg, ok) ==
    appEvents' = IF Len(appEvents) < 2 THEN Append(appEvents, AppEvent(op, arg, ok))
                 ELSE Append(Tail(appEvents), AppEvent(op, arg, ok))

\* The pending awaits of one kind, and how many they are.
PendingOf(kind) == { task \in BagToSet(app.pending) : task.kind = kind }
CountOf(kind) ==
    BagCardinality([task \in PendingOf(kind) |-> CopiesIn(task, app.pending)])

\* The user may act once more.
MayAct == BagCardinality(app.pending) < MaxPending

\* The user picks another value among the options of a filter select: its
\* change event calls handleFilterChange.
SelectFilter(value) ==
    /\ MayAct
    /\ value # app.filterValue
    /\ value = "" \/ value \in app.filterOptions
    /\ app' = handleFilterChange([app EXCEPT !.filterValue = value])
    /\ AppRecord("select", value, TRUE)
    /\ UNCHANGED << toolVars, authVars, fetch >>

\* A click on 'clear filters'.
ClickClearFilters ==
    /\ MayAct
    /\ app' = clearFilters(app)
    /\ AppRecord("clearFilters", "", TRUE)
    /\ UNCHANGED << toolVars, authVars, fetch >>

\* A click on the remove button of the badge of the active filter.
ClickBadgeRemove ==
    /\ MayAct
    /\ app.activeFilters # ""
    /\ app' = clearIndividualFilter(app)
    /\ AppRecord("badgeRemove", app.activeFilters, TRUE)
    /\ UNCHANGED << toolVars, authVars, fetch >>

\* The requests init waits for first are answered.
InitSettles(ok) ==
    /\ Task("init", "loadFilterOptions") \in BagToSet(app.pending)
    /\ app' = initResumed(Settle(app, Task("init", "loadFilterOptions")), ok)
    /\ AppRecord("initSettled", "", ok)
    /\ UNCHANGED << toolVars, authVars, fetch >>

\* loadStats of init is answered: init calls loadTomboloData.
InitLoads ==
    /\ Task("init", "loadStats") \in BagToSet(app.pending)
    /\ app' = initLoad(Settle(app, Task("init", "loadStats")))
    /\ AppRecord("initLoad", "", TRUE)
    /\ UNCHANGED << toolVars, authVars, fetch >>

\* The queries of loadFilterOptions that a handleFilterChange waits for are
\* answered.
FilterOptionsSettle(selectedFilters, ok) ==
    /\ Task("handleFilterChange", selectedFilters) \in BagToSet(app.pending)
    /\ app' = handleFilterChangeResumed(
                  Settle(app, Task("handleFilterChange", selectedFilters)),
                  selectedFilters, ok)
    /\ AppRecord("optionsSettled", selectedFilters, ok)
    /\ UNCHANGED << toolVars, authVars, fetch >>

\* The queries of loadFilterOptions that a clearFilters waits for are
\* answered.
ClearFiltersSettles(ok) ==
    /\ Task("clearFilters", "") \in BagToSet(app.pending)
    /\ app' = clearFiltersResumed(Settle(app, Task("clearFilters", "")), ok)
    /\ AppRecord("clearSettled", "", ok)
    /\ UNCHANGED << toolVars, authVars, fetch >>

\* The query of a loadTomboloData is answered.
LoadSettles(filters, ok) ==
    /\ Task("loadTomboloData", filters) \in BagToSet(app.pending)
    /\ app' = loadTomboloDataResumed(
                  Settle(app, Task("loadTomboloData", filters)), filters, ok)
    /\ AppRecord("loadSettled", filters, ok)
    /\ UNCHANGED << toolVars, authVars, fetch >>

NextApp ==
    \/ \E value \in FilterValues : SelectFilter(value)
    \/ ClickClearFilters
    \/ ClickBadgeRemove
    \/ \E ok \in BOOLEAN : InitSettles(ok)
    \/ InitLoads
    \/ \E selectedFilters \in FilterValues, ok \in BOOLEAN :
           FilterOptionsSettle(selectedFilters, ok)
    \/ \E ok \in BOOLEAN : ClearFiltersSettles(ok)
    \/ \E filters \in FilterValues, ok \in BOOLEAN : LoadSettles(filters, ok)

\* The map page: its filters and its data loads.
SpecApp == Init /\ [][NextApp]_vars

\* A click on the marker of a feature.
MarkerClick(tomboloId) ==
    /\ CountOf("showTomboloDetails") < MaxPending
    /\ app' = showTomboloDetails(app, tomboloId)
    /\ AppRecord("showTomboloDetails", tomboloId, TRUE)
    /\ UNCHANGED << toolVars, authVars, fetch >>

\* The request of a showTomboloDetails is answered: with the row as it is
\* then, or with an error.
DetailsSettle(tomboloId, ok, version) ==
    /\ Task("showTomboloDetails", tomboloId) \in BagToSet(app.pending)
    /\ app' = showTomboloDetailsResumed(
                  Settle(app, Task("showTomboloDetails", tomboloId)),
                  tomboloId, ok, version)
    /\ AppRecord("detailsSettled", tomboloId, ok)
    /\ UNCHANGED << toolVars, authVars, fetch >>

\* The modal is closed.
CloseModal ==
    /\ app.modal # << >>
    /\ app' = closeModal(app)
    /\ AppRecord("closeModal", "", TRUE)
    /\ UNCHANGED << toolVars, authVars, fetch >>

NextDetails ==
    \/ \E tomboloId \in TomboloIds : MarkerClick(tomboloId)
    \/ \E tomboloId \in TomboloIds, ok \in BOOLEAN, version \in Versions :
           DetailsSettle(tomboloId, ok, version)
    \/ CloseModal

\* The details of the features: marker clicks and the backend's answers.
SpecDetails == Init /\ [][NextDetails]_vars

\* ------------------------------------------------------------- auth events

\* The history of a notification: the callbacks registered when it began,
\* those whose unsubscribe function had returned before, those called, and
\* those whose unsubscribe function has returned by now.
Notification(session, behave) ==
    LET done == notifyCallbacks(auth.callbacks, behave)
    IN  [notified |-> TRUE, session |-> session, registered |-> auth.callbacks,
         unsubscribed |-> authLog.gone, invoked |-> done.invoked,
         gone |-> authLog.gone
                  \cup { done.invoked[i] : i \in { j \in 1..Len(done.invoked) :
                                                     behave[done.invoked[j]] = "unsubscribe" } }]

\* Some code registers a callback that is not registered.
OnAuthChange(callback) ==
    /\ \A i \in 1..Len(auth.callbacks) : auth.callbacks[i] # callback
    /\ auth' = onAuthChange(auth, callback)
    /\ authLog' = [authLog EXCEPT !.gone = @ \ {callback}]
    /\ UNCHANGED << toolVars, appVars, fetch >>

\* Some code calls the unsubscribe function of a registered callback,
\* outside a notification.
Unsubscribe(callback) ==
    /\ \E i \in 1..Len(auth.callbacks) : auth.callbacks[i] = callback
    /\ auth' = [auth EXCEPT !.callbacks = unsubscribe(@, callback)]
    /\ authLog' = [authLog EXCEPT !.gone = @ \cup {callback}]
    /\ UNCHANGED << toolVars, appVars, fetch >>

\* The auth state changes: _updateSession runs, every callback called
\* doing what behave says.
UpdateSession(session, behave) ==
    /\ auth' = updateSession(auth, session, behave)
    /\ authLog' = Notification(session, behave)
    /\ UNCHANGED << toolVars, appVars, fetch >>

NextAuth ==
    \/ \E callback \in Callbacks : OnAuthChange(callback)
    \/ \E callback \in Callbacks : Unsubscribe(callback)
    \/ \E session \in Sessions, behave \in [Callbacks -> Behaviours] :
           UpdateSession(session, behave)

\* The auth manager: registrations, unsubscriptions and session updates.
SpecAuth == Init /\ [][NextAuth]_vars

\* ------------------------------------------------------------- paging events

\* _fetchAllRecords is called with a query of n rows, no call running.
FetchAllRecords(n) ==
    /\ fetch.pc # "await"
    /\ fetch' = fetchAllRecords(n)
    /\ UNCHANGED << toolVars, appVars, authVars >>

\* The backend answers the range requested: with its rows, or an error.
RangeAnswered(ok) ==
    /\ fetch.pc = "await"
    /\ fetch' = fetchAllRecordsResumed(fetch, ok)
    /\ UNCHANGED << toolVars, appVars, authVars >>

NextFetch ==
    \/ \E n \in RowCounts : FetchAllRecords(n)
    \/ \E ok \in BOOLEAN : RangeAnswered(ok)

\* Calls of _fetchAllRecords, every request answered in the end.
SpecFetch ==
    Init /\ [][NextFetch]_vars /\ WF_vars(\E ok \in BOOLEAN : RangeAnswered(ok))

\* ------------------------------------------------------------- claims

\* The sum of getDistance over the consecutive pairs of a point sequence.
RECURSIVE SumOfDistances(_)
SumOfDistances(pts) ==
    IF Len(pts) < 2 THEN Num(0)
    ELSE Plus(SumOfDistances(SubSeq(pts, 1, Len(pts) - 1)),
              getDistance(pts[Len(pts) - 1], pts[Len(pts)]))

\* The bag of the elements of a sequence.
RECURSIVE BagOfSeq(_)
BagOfSeq(seq) ==
    IF seq = << >> THEN EmptyBag
    ELSE BagOfSeq(Tail(seq)) (+) SetToBag({Head(seq)})

\* The k-th last event of the history (0: the last one).
Ago(k) == events[Len(events) - k]

IsToggle(e) == e.op \in {"toggle", "toggleBtn"}
IsClear(e) == e.op \in {"clear", "clearBtn"}

\* The measurement and its drawing: what a state holds beside the mode, the
\* pan flag and the buttons.
Measurement(s) ==
    [ points |-> s.points, totalDistance |-> s.totalDistance, area |-> s.area,
      markers |-> s.markers, mapMarkers |-> s.mapMarkers,
      polyline |-> s.polyline, mapPolylines |-> s.mapPolylines,
      infoDisplay |-> s.infoDisplay, infoDiv |-> s.infoDiv,
      mapControls |-> s.mapControls ]

\* The measurement, the mode and the pan flag: everything but the buttons.
Tool(s) == [m |-> Measurement(s), isActive |-> s.isActive, dragging |-> s.dragging]

\* C1: in every state between two events, totalDistance is the sum of
\* getDistance over the consecutive pairs of the placed points (0 with fewer
\* than 2 points) and area is getArea of the placed points (0 with fewer
\* than 3 points).
C1_DerivedFieldsConsistent ==
    /\ totalDistance = SumOfDistances(points)
    /\ area = getArea(points)
    /\ Len(points) < 2 => totalDistance = Num(0)
    /\ Len(points) < 3 => area = 0

\* Three points placed, with a distance and an area that are not zero.
C1_Witness ==
    /\ Len(points) = 3
    /\ GreaterThanZero(totalDistance)
    /\ area > 0
    /\ Ago(0).op = "click"

\* C2: in measurement mode a click on the map at any place, also a place
\* that already holds a point, appends that place to the points: one point
\* more, the earlier ones as they were.
C2_ActiveClickAppends ==
    isActive =>
        \A latlng \in LatLngs :
            mapClick(Cur, latlng).points = Append(points, latlng)

\* A click in measurement mode has placed a point on the place of the
\* point before it.
C2_Witness ==
    /\ Len(events) >= 1
    /\ Ago(0).op = "click"
    /\ Ago(0).active
    /\ Len(points) = Ago(0).n + 1
    /\ Len(points) >= 2
    /\ points[Len(points)] = points[Len(points) - 1]

\* C3: outside measurement mode a click on the map changes nothing at all.
C3_InactiveClickChangesNothing ==
    ~isActive => \A latlng \in LatLngs : mapClick(Cur, latlng) = Cur

\* A click arrived outside measurement mode while points were placed.
C3_Witness ==
    /\ Len(events) >= 1
    /\ Ago(0).op = "click"
    /\ ~Ago(0).active
    /\ Len(points) >= 2
    /\ infoDisplay

\* C4: the tool starts inactive with dragging enabled, and in every state
\* dragging is disabled exactly when the tool is active.
C4_DraggingIffInactive ==
    /\ events = << >> => ~isActive /\ dragging
    /\ dragging <=> ~isActive

\* Measurement mode with a point placed: dragging is disabled.
C4_Witness ==
    /\ isActive
    /\ ~dragging
    /\ Len(points) >= 1
    /\ Len(events) = 3
    /\ IsClear(Ago(2))

\* C5: toggle() changes the active flag and the pan flag and nothing else,
\* the toggle button leaves the measurement and its drawing alone, and two
\* toggles in a row give back the state before the first.
C5_ToggleKeepsMeasurement ==
    /\ toggle(Cur) = [Cur EXCEPT !.isActive = ~isActive, !.dragging = isActive]
    /\ Measurement(toggle(Cur)) = Measurement(Cur)
    /\ Measurement(toggleBtnClick(Cur)) = Measurement(Cur)
    /\ toggle(toggle(Cur)) = Cur
    /\ Tool(toggleBtnClick(toggleBtnClick(Cur))) = Tool(Cur)

\* Two toggles in a row, with a line and an info panel on the map.
C5_Witness ==
    /\ Len(events) >= 2
    /\ Ago(1).op = "toggle"
    /\ Ago(0).op = "toggle"
    /\ Ago(1).n >= 2
    /\ Len(points) >= 2
    /\ polyline.present
    /\ infoDisplay

\* What clear() must leave behind.
Cleared(s) ==
    /\ s.points = << >>
    /\ s.totalDistance = Num(0)
    /\ s.area = 0
    /\ s.markers = << >>
    /\ s.mapMarkers = EmptyBag
    /\ ~s.polyline.present
    /\ s.mapPolylines = 0
    /\ ~s.infoDisplay
    /\ s.mapControls = 0
    /\ ~s.isActive
    /\ s.dragging

\* C6: from every state, active or not, with any number of points, clear()
\* (and the clear button) ends with no points, distance 0, area 0, no
\* marker, no line, no info panel, inactive and dragging enabled.
C6_ClearResetsEverything ==
    /\ Cleared(clear(Cur))
    /\ Cleared(clearBtnClick(Cur))

\* clear() has run in measurement mode with points, a line and a panel.
C6_Witness ==
    /\ Len(events) >= 1
    /\ Ago(0).op = "clear"
    /\ Ago(0).active
    /\ Ago(0).n >= 2
    /\ Cleared(Cur)

C8_MeasurementContinuesAfterToggles ==
    (isActive /\ Len(points) >= 1) =>
        \A latlng \in LatLngs :
            LET after == mapClick(toggle(toggle(Cur)), latlng)
                afterBtn == mapClick(toggleBtnClick(toggleBtnClick(Cur)), latlng)
                all == Append(points, latlng)
            IN  /\ after.points = all
                /\ after.totalDistance = SumOfDistances(all)
                /\ after.area = getArea(all)
                /\ after.polyline = Polyline(all)
                /\ after.mapPolylines = 1
                /\ Measurement(afterBtn) = Measurement(after)

\* Toggled off and on with two points placed, then a third one clicked.
C8_Witness ==
    /\ Len(events) = 3
    /\ IsToggle(Ago(2)) /\ Ago(2).active /\ Ago(2).n >= 2
    /\ IsToggle(Ago(1)) /\ ~Ago(1).active
    /\ Ago(0).op = "click" /\ Ago(0).active
    /\ Len(points) = Ago(2).n + 1
    /\ mapPolylines = 1
    /\ area > 0

\* C9: after clear(), toggling on and clicking once gives a measurement of
\* that one point alone: distance 0, area 0, one marker, no line, and a new
\* info panel showing one point.
C9_NothingSurvivesClear ==
    \A latlng \in LatLngs :
        LET after == mapClick(toggle(clear(Cur)), latlng)
            afterBtn == mapClick(toggleBtnClick(clearBtnClick(Cur)), latlng)
        IN  /\ after.points = << latlng >>
            /\ after.totalDistance = Num(0)
            /\ after.area = 0
            /\ after.markers = << latlng >>
            /\ after.mapMarkers = SetToBag({latlng})
            /\ after.polyline = NoPolyline
            /\ after.mapPolylines = 0
            /\ after.infoDisplay
            /\ after.mapControls = 1
            /\ after.infoDiv = [exists |-> TRUE, points |-> 1,
                                distance |-> << >>, area |-> << >>]
            /\ Measurement(afterBtn) = Measurement(after)

\* A measurement with points was cleared, then toggled on and one point
\* clicked.
C9_Witness ==
    /\ Len(events) = 3
    /\ IsClear(Ago(2)) /\ Ago(2).n >= 2
    /\ IsToggle(Ago(1)) /\ ~Ago(1).active
    /\ Ago(0).op = "click" /\ Ago(0).active
    /\ Len(points) = 1
    /\ mapControls = 1

\* C10: in every state there is one marker per point, the i-th marker at
\* the i-th point, and the markers on the map are exactly those; after a
\* clear none is left on the map.
C10_MarkersMatchPoints ==
    /\ Len(markers) = Len(points)
    /\ \A i \in 1..Len(points) : markers[i] = points[i]
    /\ mapMarkers = BagOfSeq(markers)
    /\ BagCardinality(mapMarkers) = Len(points)
    /\ (Len(events) >= 1 /\ IsClear(Ago(0))) => mapMarkers = EmptyBag

\* Three markers on the map, two of them on the same place.
C10_Witness ==
    /\ Len(markers) = 3
    /\ markers[1] = markers[3]
    /\ BagCardinality(mapMarkers) = 3
    /\ Ago(0).op = "click"
    /\ Ago(0).active

\* C11: in every state at most one polyline is on the map; there is none
\* exactly when fewer than 2 points are placed, and otherwise its vertices
\* are the placed points in placement order, with no closing vertex added.
C11_OneLineThroughThePoints ==
    /\ mapPolylines <= 1
    /\ polyline.present <=> Len(points) >= 2
    /\ mapPolylines = IF Len(points) >= 2 THEN 1 ELSE 0
    /\ polyline.present => polyline.latlngs = points
    /\ ~polyline.present => polyline = NoPolyline

\* Three different points placed, the line through them in that order.
C11_Witness ==
    /\ Len(points) = 3
    /\ points[1] # points[2] /\ points[2] # points[3] /\ points[1] # points[3]
    /\ mapPolylines = 1
    /\ Len(polyline.latlngs) = 3
    /\ Ago(0).op = "click"

\* C12: in every state at most one info panel is mounted, and one is
\* mounted exactly when a point has been placed since the last clear: made
\* on the first point, kept by toggles, removed by clear.
C12_OnePanelWhilePoints ==
    /\ mapControls <= 1
    /\ mapControls = 1 <=> Len(points) >= 1
    /\ infoDisplay <=> Len(points) >= 1
    /\ infoDisplay => infoDiv.exists
    /\ Measurement(toggle(Cur)).mapControls = mapControls
    /\ clear(Cur).mapControls = 0

\* The panel is still mounted after the tool was toggled off.
C12_Witness ==
    /\ Len(events) >= 2
    /\ Ago(1).op = "click" /\ Ago(1).active
    /\ IsToggle(Ago(0)) /\ Ago(0).active
    /\ ~isActive
    /\ mapControls = 1
    /\ Len(points) >= 2

\* C13 as claimed: while points are placed the panel shows their count,
\* and with 3 or more points it shows an area entry.
C13_AreaEntryWithThreePoints ==
    Len(points) >= 1 =>
        /\ infoDiv.points = Len(points)
        /\ Len(points) >= 3 => infoDiv.area # << >>

\* C13, amended: while points are placed the panel shows their count; with
\* 3 or more points of an area above 0 it shows the area entry (km2 and
\* hectares) of the placed points, and with an area of 0 it shows none.
C13_AreaEntryWhenAreaPositive ==
    Len(points) >= 1 =>
        /\ infoDisplay /\ infoDiv.exists
        /\ infoDiv.points = Len(points)
        /\ (Len(points) >= 3 /\ getArea(points) > 0)
               => infoDiv.area = << getArea(points), [hundreds |-> getArea(points)] >>
        /\ getArea(points) = 0 => infoDiv.area = << >>

\* Three points that enclose an area, and the panel's area entry.
C13_Witness ==
    /\ Len(points) = 3
    /\ area > 0
    /\ infoDiv.points = 3
    /\ infoDiv.area # << >>
    /\ Ago(0).op = "click"

\* C14: driven by its buttons and map clicks only, the tool shows the
\* clear button only while it is active or points are placed; the button
\* is hidden at the start and after every clear.
C14_ClearButtonOnlyWhenUseful ==
    /\ clearBtnDisplay = "block" => (isActive \/ Len(points) >= 1)
    /\ events = << >> => clearBtnDisplay = "none"
    /\ (Len(events) >= 1 /\ IsClear(Ago(0))) => clearBtnDisplay = "none"
    /\ clearBtnClick(Cur).clearBtnDisplay = "none"

\* After a clear, the toggle button and a click: the clear button is shown
\* again.
C14_Witness ==
    /\ Len(events) = 3
    /\ Ago(2).op = "clearBtn" /\ Ago(2).n >= 1
    /\ Ago(1).op = "toggleBtn"
    /\ Ago(0).op = "click"
    /\ clearBtnDisplay = "block"
    /\ isActive
    /\ Len(points) = 1

\* Places outside the range of longitudes, as a click on a second copy of
\* the world gives them.
OutOfRangeLatLngs == { [lat |-> 0, lng |-> 182], [lat |-> 0, lng |-> -182] }

\* C15: no exception has escaped from a handler, and from no reachable
\* state does toggle, clear, a button click or a click on the map at any
\* place (in range or not, placed before or not) raise one; with no points
\* the totals are 0 and nothing is drawn.
C15_NoHandlerThrows ==
    /\ ~error
    /\ ~toggle(Cur).error
    /\ ~clear(Cur).error
    /\ ~toggleBtnClick(Cur).error
    /\ ~clearBtnClick(Cur).error
    /\ \A latlng \in LatLngs \cup OutOfRangeLatLngs :
           /\ ~mapClick(Cur, latlng).error
           /\ ~addPoint(Cur, latlng).error
    /\ Len(points) = 0 =>
           /\ totalDistance = Num(0)
           /\ area = 0
           /\ mapMarkers = EmptyBag /\ mapPolylines = 0 /\ mapControls = 0

\* Three points placed, two of them antipodal: the distance is NaN and the
\* panel was written without a distance entry.
C15_Witness ==
    /\ Len(points) = 3
    /\ totalDistance.nan
    /\ infoDiv.exists
    /\ infoDiv.points = 3
    /\ infoDiv.distance = << >>
    /\ Ago(0).op = "click" /\ Ago(0).active
    /\ ~error

\* The term of the shoelace sum for the edge from p to q.
Cross(p, q) == p.lng * q.lat - q.lng * p.lat

\* The sum of Cross over the consecutive pairs of a point sequence.
RECURSIVE OpenSum(_)
OpenSum(pts) ==
    IF Len(pts) < 2 THEN 0
    ELSE OpenSum(SubSeq(pts, 1, Len(pts) - 1)) + Cross(pts[Len(pts) - 1], pts[Len(pts)])

\* The shoelace area of the polygon closed from the last point to the first:
\* half the absolute sum, in square kilometres.
ShoelaceArea(pts) ==
    (Abs(OpenSum(pts) + Cross(pts[Len(pts)], pts[1])) \div 2) * KmSqPerDegSq

\* The point sequences a claim about a list function is tried on: the
\* placed points, and the placed points with any one place after them.
Lists == {points} \cup { Append(points, latlng) : latlng \in LatLngs }

\* C16: for every list of 3 or more points getArea is the absolute value of
\* the shoelace sum over (lng, lat), the last point joined to the first,
\* halved and multiplied by (pi / 180) * 6371 * 6371, whether or not the
\* list ends on its first point.
C16_AreaIsClosedShoelace ==
    /\ R = 6371
    /\ KmSqPerDegSq \div 100 = 7084
    /\ \A pts \in Lists : Len(pts) >= 3 => getArea(pts) = ShoelaceArea(pts)
    /\ Len(points) >= 3 => area = ShoelaceArea(points)

\* The triangle of the three places, not closed by hand: 120 square
\* degrees.
C16_Witness ==
    /\ Len(points) = 3
    /\ points[3] # points[1]
    /\ OpenSum(points) + Cross(points[3], points[1]) = 240
    /\ area = 120 * KmSqPerDegSq

\* The list started k points later, and the list backwards.
RotateBy(pts, k) == SubSeq(pts, k + 1, Len(pts)) \o SubSeq(pts, 1, k)
Reverse(pts) == [i \in 1..Len(pts) |-> pts[Len(pts) + 1 - i]]

ShortLists ==
    {<< >>} \cup { << p >> : p \in LatLngs } \cup { << p, q >> : p, q \in LatLngs }

\* C18: getArea of a list of 0, 1 or 2 points is 0, and in every state with
\* fewer than 3 points placed the area field is 0.
C18_NoAreaBelowThreePoints ==
    /\ \A pts \in ShortLists : getArea(pts) = 0
    /\ Len(points) < 3 => getArea(points) = 0
    /\ Len(points) < 3 => area = 0

\* No points left after a clear of a triangle with an area.
C18_Witness ==
    /\ Len(events) >= 2
    /\ Ago(1).op = "click" /\ Ago(1).n = 2
    /\ IsClear(Ago(0)) /\ Ago(0).n = 3
    /\ Len(points) = 0
    /\ area = 0

\* The path length updateMeasurements computes for a point sequence.
PathLength(pts) == DistanceLoop(pts, 1, Num(0))

\* C19: the path length of every list is the sum of getDistance over its
\* consecutive pairs, 0 for no or one point, and the same after the last
\* point is appended once more; totalDistance is the path length of the
\* placed points.
C19_PathLengthIsSumOfDistances ==
    /\ \A pts \in Lists :
           /\ PathLength(pts) = SumOfDistances(pts)
           /\ Len(pts) < 2 => PathLength(pts) = Num(0)
           /\ Len(pts) >= 1 => PathLength(Append(pts, pts[Len(pts)])) = PathLength(pts)
    /\ totalDistance = PathLength(points)
    /\ (isActive /\ Len(points) >= 1)
           => mapClick(Cur, points[Len(points)]).totalDistance = totalDistance

\* The last place was clicked twice: the distance is that of the first two
\* points.
C19_Witness ==
    /\ Len(points) = 3
    /\ points[3] = points[2]
    /\ points[1] # points[2]
    /\ GreaterThanZero(totalDistance)
    /\ totalDistance = getDistance(points[1], points[2])

\* C20: for all places a and b getDistance(a, b) is getDistance(b, a), and
\* getDistance(a, a) is 0.
C20_DistanceSymmetric ==
    /\ \A a, b \in LatLngs \cup OutOfRangeLatLngs :
           getDistance(a, b) = getDistance(b, a)
    /\ \A a \in LatLngs \cup OutOfRangeLatLngs : getDistance(a, a) = Num(0)
    /\ \A i, j \in 1..Len(points) :
           getDistance(points[i], points[j]) = getDistance(points[j], points[i])

\* Two different places placed: the distance shown is the distance back.
C20_Witness ==
    /\ Len(points) = 2
    /\ points[1] # points[2]
    /\ GreaterThanZero(totalDistance)
    /\ totalDistance = getDistance(points[2], points[1])

\* C21: getDistance never gives NaN, for no pair of places: neither for
\* two of the placed points nor as the total distance of a session.
C21_DistanceNeverNaN ==
    /\ \A i, j \in 1..Len(points) : ~getDistance(points[i], points[j]).nan
    /\ ~totalDistance.nan

\* C22: in every state with at least one point placed the clear button is
\* shown, also after the toggle button switched the mode off over placed
\* points.
C22_ClearButtonShownWhilePoints ==
    /\ Len(points) >= 1 => clearBtnDisplay = "block"
    /\ (isActive /\ Len(points) >= 1)
           => toggleBtnClick(Cur).clearBtnDisplay = "block"

\* C23: driven by its two buttons and map clicks only, the toggle button
\* has the 'active' class exactly when the tool is active, and each of the
\* three events keeps it so.
C23_ToggleButtonClassFollowsMode ==
    /\ toggleBtnActive = isActive
    /\ toggleBtnClick(Cur).toggleBtnActive = toggleBtnClick(Cur).isActive
    /\ clearBtnClick(Cur).toggleBtnActive = clearBtnClick(Cur).isActive
    /\ \A latlng \in LatLngs :
           mapClick(Cur, latlng).toggleBtnActive = mapClick(Cur, latlng).isActive

\* The clear button was clicked in active mode over a point, then the
\* toggle button: the tool is active and the class is set.
C23_Witness ==
    /\ Len(events) = 3
    /\ Ago(2).op = "click" /\ Ago(2).active
    /\ Ago(1).op = "clearBtn" /\ Ago(1).active /\ Ago(1).n >= 1
    /\ Ago(0).op = "toggleBtn"
    /\ isActive
    /\ toggleBtnActive

\* Nothing of the page is waiting: no init, no filter handler, no clearing
\* of the filters and no data load.
Quiescent == app.pending = EmptyBag

\* C24: whenever nothing of the page is waiting and no request has failed,
\* currentData is the result of the query for the value the filter select
\* shows.
C24_DataMatchesSelectedFilters ==
    (Quiescent /\ ~app.errorBanner) => app.currentData = Query(app.filterValue)

\* The k-th last event of the page's history (0: the last one).
AppAgo(k) == appEvents[Len(appEvents) - k]

\* C25: at most one query of loadTomboloData is in flight; a call made
\* while isLoading is true sends none and changes nothing; isLoading is
\* true only while that query is in flight, and is false after its answer,
\* a failure as well as a success.
C25_OneLoadAndFlagReset ==
    /\ CountOf("loadTomboloData") <= 1
    /\ app.isLoading <=> CountOf("loadTomboloData") = 1
    /\ app.isLoading => \A filters \in FilterValues : loadTomboloData(app, filters) = app
    /\ \A task \in PendingOf("loadTomboloData"), ok \in BOOLEAN :
           ~loadTomboloDataResumed(Settle(app, task), task.arg, ok).isLoading

\* A badge was removed while a load ran, then the load failed: the flag is
\* reset and nothing is loading.
C25_Witness ==
    /\ Len(appEvents) = 2
    /\ AppAgo(1).op = "badgeRemove"
    /\ AppAgo(1).found.isLoading
    /\ AppAgo(0).op = "loadSettled"
    /\ ~AppAgo(0).ok
    /\ ~app.isLoading
    /\ CountOf("loadTomboloData") = 0

\* C26: at most one handleFilterChange is running; a change event that
\* arrives while isUpdatingFilters is true sends no query; isUpdatingFilters
\* is true only while an invocation waits for loadFilterOptions, and is false
\* when that has ended, with a failure as well as with a success.
C26_OneFilterHandlerAndFlagReset ==
    /\ CountOf("handleFilterChange") <= 1
    /\ app.isUpdatingFilters <=> CountOf("handleFilterChange") = 1
    /\ app.isUpdatingFilters =>
           \A value \in FilterValues :
               handleFilterChange([app EXCEPT !.filterValue = value]).pending
                   = app.pending
    /\ \A task \in PendingOf("handleFilterChange"), ok \in BOOLEAN :
           ~handleFilterChangeResumed(Settle(app, task), task.arg, ok).isUpdatingFilters

\* A change event arrived while a handler was running and was dropped, then
\* the handler's loadFilterOptions failed: the flag is reset.
C26_Witness ==
    /\ Len(appEvents) = 2
    /\ AppAgo(1).op = "select"
    /\ AppAgo(1).found.isUpdatingFilters
    /\ AppAgo(0).op = "optionsSettled"
    /\ ~AppAgo(0).ok
    /\ AppAgo(0).found.pending = AppAgo(1).found.pending
    /\ ~app.isUpdatingFilters
    /\ CountOf("handleFilterChange") = 0

\* How often a callback occurs in a sequence of callbacks.
Occurrences(callbacks, callback) ==
    Cardinality({ i \in 1..Len(callbacks) : callbacks[i] = callback })

\* C27: in every session update each callback that was registered when the
\* update began has been called exactly once with the new session, whatever
\* the callbacks did when called, and no callback has been called whose
\* unsubscribe function had returned before the update.
C27_EveryCallbackNotifiedOnce ==
    authLog.notified =>
        /\ authLog.session = auth.currentSession
        /\ \A callback \in Callbacks :
               Occurrences(authLog.invoked, callback)
                   = Occurrences(authLog.registered, callback)
        /\ \A callback \in authLog.unsubscribed :
               Occurrences(authLog.invoked, callback) = 0

\* The ranges requested so far start at row 0, each has the batch size,
\* and each starts right after the one before.
RangesAdjoin ==
    \A i \in 1..Len(fetch.ranges) :
        /\ fetch.ranges[i].from = (IF i = 1 THEN 0 ELSE fetch.ranges[i - 1].to + 1)
        /\ fetch.ranges[i].to = fetch.ranges[i].from + batchSize - 1

\* C28: a call of _fetchAllRecords on a result set of N rows ends; when it
\* returns, it returns exactly the rows 0 .. N - 1 in order; until then it
\* holds the rows below its offset in order; the ranges it requests adjoin,
\* and there are at most N / batchSize + 1 of them.
C28_FetchAllReturnsAllRows ==
    /\ [](/\ RangesAdjoin
          /\ Len(fetch.ranges) <= fetch.rows \div batchSize + 1
          /\ fetch.pc = "await" =>
                 fetch.allRecords = Range(fetch.rows, 0, fetch.offset - 1)
          /\ fetch.pc = "returned" =>
                 fetch.allRecords = Range(fetch.rows, 0, fetch.rows - 1))
    /\ (fetch.pc = "await" ~> fetch.pc # "await")

\* A result set of exactly two batches has been returned after three
\* requests, the last of which found no rows.
C28_Witness ==
    /\ fetch.pc = "returned"
    /\ fetch.rows = 2 * batchSize
    /\ Len(fetch.ranges) = 3
    /\ Len(fetch.allRecords) = 2 * batchSize
    /\ Range(fetch.rows, fetch.ranges[3].from, fetch.ranges[3].to) = << >>

\* C29: a call of showTomboloDetails for an id in the cache displays the
\* cached record and sends no request; a failed fetch leaves the cache as it
\* was, so that a call for an id not cached sends a request again; and an id
\* once cached stays cached.
C29_DetailsCache ==
    /\ [](/\ \A tomboloId \in TomboloIds :
                 IF Has(app.tomboloDetailsCache, tomboloId)
                 THEN showTomboloDetails(app, tomboloId)
                          = [app EXCEPT !.modal =
                                 << Get(app.tomboloDetailsCache, tomboloId) >>]
                 ELSE showTomboloDetails(app, tomboloId).pending
                          = app.pending (+) SetToBag({Task("showTomboloDetails", tomboloId)})
          /\ \A task \in PendingOf("showTomboloDetails"), version \in Versions :
                 showTomboloDetailsResumed(Settle(app, task), task.arg, FALSE, version)
                         .tomboloDetailsCache
                     = app.tomboloDetailsCache
          /\ \A task \in PendingOf("showTomboloDetails"), version \in Versions :
                 LET a == showTomboloDetailsResumed(Settle(app, task), task.arg, TRUE, version)
                 IN  /\ Has(a.tomboloDetailsCache, task.arg)
                     /\ a.modal = << Get(a.tomboloDetailsCache, task.arg) >>)
    /\ [][\A tomboloId \in TomboloIds :
              Has(app.tomboloDetailsCache, tomboloId)
                  => Has(app'.tomboloDetailsCache, tomboloId)]_vars

\* A fetch for an id failed, and the next click on that id sent a request
\* again; elsewhere in the cache is a record of a fetch that succeeded.
C29_Witness ==
    /\ Len(appEvents) = 2
    /\ AppAgo(1).op = "detailsSettled"
    /\ ~AppAgo(1).ok
    /\ AppAgo(0).op = "showTomboloDetails"
    /\ AppAgo(0).arg = AppAgo(1).arg
    /\ ~Has(app.tomboloDetailsCache, AppAgo(0).arg)
    /\ Task("showTomboloDetails", AppAgo(0).arg) \in BagToSet(app.pending)
    /\ app.tomboloDetailsCache # {}
    /\ app.errorBanner

=============================================================================
